---- MODULE Spec2Model ----
(***************************************************************************)
(* Model of docformatter.py: format_code and its helpers, and main.        *)
(* Text is a sequence of one-character strings.  The alphabet of the model *)
(* is  a  .  space  tab  newline  "  '  : no backslash, comment or bracket  *)
(* character occurs in any text of the model.                              *)
(***************************************************************************)
EXTENDS Integers, Sequences, FiniteSets, TLC

\* ------------------------------------------------------------------ bounds
MaxBody == 7
MaxPieces == 4
MaxFiles == 3

\* ------------------------------------------------------------- characters
DQ == "\""
SQ == "'"
LF == "\n"
TAB == "\t"
SP == " "
DQ3 == <<DQ, DQ, DQ>>
SQ3 == <<SQ, SQ, SQ>>
SQ4 == <<SQ, SQ, SQ, SQ>>

\* str.isspace() / regular expression \s, on the model's alphabet
IsSpace(c) == c \in {SP, TAB, LF}

\* ----------------------------------------------------- Python str methods
Drop(s, n) == SubSeq(s, n + 1, Len(s))

Take(s, n) == SubSeq(s, 1, n)

\* s[a-1:b], clipped to the text as a Python slice is
slice(s, a, b) == SubSeq(s, a, IF b > Len(s) THEN Len(s) ELSE b)

startswith(s, p) == Len(p) <= Len(s) /\ Take(s, Len(p)) = p

endswith(s, p) == Len(p) <= Len(s) /\ Drop(s, Len(s) - Len(p)) = p

RECURSIVE lstrip(_)
lstrip(s) == IF s # <<>> /\ IsSpace(Head(s)) THEN lstrip(Tail(s)) ELSE s

RECURSIVE rstrip(_)
rstrip(s) == IF s # <<>> /\ IsSpace(s[Len(s)]) THEN rstrip(Take(s, Len(s) - 1)) ELSE s

strip(s) == lstrip(rstrip(s))

\* s.find(p, from): least 1-based index >= from where p occurs, 0 if none
RECURSIVE find(_, _, _)
find(s, p, from) ==
    IF from + Len(p) - 1 > Len(s) THEN 0
    ELSE IF SubSeq(s, from, from + Len(p) - 1) = p THEN from
    ELSE find(s, p, from + 1)

\* s.rfind(p): greatest 1-based index where p occurs, 0 if none
RECURSIVE rfindFrom(_, _, _)
rfindFrom(s, p, from) ==
    IF from < 1 THEN 0
    ELSE IF SubSeq(s, from, from + Len(p) - 1) = p THEN from
    ELSE rfindFrom(s, p, from - 1)

rfind(s, p) == rfindFrom(s, p, Len(s) - Len(p) + 1)

\* s.split('\n')
RECURSIVE splitNL(_)
splitNL(s) ==
    LET k == find(s, <<LF>>, 1)
    IN IF k = 0 THEN <<s>> ELSE <<Take(s, k - 1)>> \o splitNL(Drop(s, k))

\* '\n'.join(lines)
RECURSIVE joinNL(_)
joinNL(lines) ==
    IF lines = <<>> THEN <<>>
    ELSE IF Len(lines) = 1 THEN lines[1]
    ELSE lines[1] \o <<LF>> \o joinNL(Tail(lines))

\* ------------------------------------------------------ docstring helpers
starts_with_triple(s) == startswith(strip(s), DQ3) \/ startswith(strip(s), SQ4)

\* the delimiter strip_docstring looks for
triple_of(doc) == IF startswith(lstrip(doc), SQ3) THEN SQ3 ELSE DQ3

\* strip_docstring raises: the assertion, or the index error of split(...)[1]
strip_docstring_raises(doc) ==
    \/ startswith(lstrip(doc), SQ3) /\ ~endswith(rstrip(doc), SQ3)
    \/ find(doc, triple_of(doc), 1) = 0

strip_docstring(doc) ==
    LET triple == triple_of(doc)
        rest == Drop(doc, find(doc, triple, 1) + 2)
        k == rfind(rest, triple)
    IN strip(IF k = 0 THEN rest ELSE Take(rest, k - 1))

\* least index of a period followed by a whitespace character, 0 if none
RECURSIVE findPeriodSpace(_, _)
findPeriodSpace(s, from) ==
    IF from + 1 > Len(s) THEN 0
    ELSE IF s[from] = "." /\ IsSpace(s[from + 1]) THEN from
    ELSE findPeriodSpace(s, from + 1)

\* variant: splits at the last period-whitespace instead of the first
split_summary_and_description_last(contents_) ==
    LET split == splitNL(contents_)
        k == IF findPeriodSpace(contents_, 1) = 0 THEN 0
             ELSE CHOOSE j \in 1..Len(contents_) :
                    /\ findPeriodSpace(contents_, j) = j
                    /\ findPeriodSpace(contents_, j + 1) = 0
    IN IF Len(split) > 1 /\ strip(split[2]) = <<>>
       THEN <<split[1], joinNL(Drop(split, 2))>>
       ELSE IF k # 0
            THEN <<strip(Take(contents_, k - 1)) \o <<".">>, strip(Drop(contents_, k + 1))>>
            ELSE <<strip(contents_), <<>>>>

split_summary_and_description(contents_) ==
    LET split == splitNL(contents_)
        k == findPeriodSpace(contents_, 1)
    IN IF Len(split) > 1 /\ strip(split[2]) = <<>>
       THEN <<split[1], joinNL(Drop(split, 2))>>
       ELSE IF k # 0
            THEN <<strip(Take(contents_, k - 1)) \o <<".">>, strip(Drop(contents_, k + 1))>>
            ELSE <<strip(contents_), <<>>>>

\* re.sub('\s*\n\s*', ' ', s): every maximal whitespace run holding a line
\* break becomes one space
RECURSIVE spaceRun(_)
spaceRun(s) == IF s # <<>> /\ IsSpace(Head(s)) THEN 1 + spaceRun(Tail(s)) ELSE 0

RECURSIVE subNewlines(_)
subNewlines(s) ==
    IF s = <<>> THEN <<>>
    ELSE LET n == spaceRun(s)
         IN IF n = 0 THEN <<Head(s)>> \o subNewlines(Tail(s))
            ELSE IF find(Take(s, n), <<LF>>, 1) # 0 THEN <<SP>> \o subNewlines(Drop(s, n))
            ELSE Take(s, n) \o subNewlines(Drop(s, n))

\* variant: appends the period without looking at the last character
normalize_summary_always(summary_) == subNewlines(strip(summary_)) \o <<".">>

normalize_summary(summary_) ==
    LET s == subNewlines(strip(summary_))
    IN IF ~endswith(s, <<".">>) THEN s \o <<".">> ELSE s

\* variant: indents every line
indent_non_indented_all(line, ind) == ind \o line

indent_non_indented(line, ind) == IF lstrip(line) = line THEN ind \o line ELSE line

\* the description argument of the format call, lines 68-69
reindent(description_, ind) ==
    LET ls == splitNL(description_)
    IN joinNL([j \in 1..Len(ls) |-> rstrip(indent_non_indented(ls[j], ind))])

\* the template of lines 61-66
template(summary_, description_, ind) ==
    DQ3 \o summary_ \o <<LF, LF>> \o description_ \o <<LF, LF>> \o ind \o DQ3

format_docstring(ind, doc) ==
    LET c == strip_docstring(doc)
        sd == split_summary_and_description(c)
    IN IF c = <<>> THEN <<>>
       ELSE IF sd[2] # <<>>
            THEN template(normalize_summary(sd[1]), reindent(sd[2], ind), ind)
            ELSE DQ3 \o c \o DQ3

\* --------------------------------------------------------------- tokenizer
\* tokenize.generate_tokens on the model's alphabet.  Rows count from 1 and
\* columns from 0, as in the library; pos is a 0-based offset into the line.
Tok(type, string, srow, scol, erow, ecol) ==
    [type |-> type, string |-> string, start |-> <<srow, scol>>, end |-> <<erow, ecol>>]

\* the exception a generator step raises, as the last item of the stream
Raise(exc) == Tok(exc, <<>>, 0, 0, 0, 0)

Exceptions == {"TokenError", "IndentationError"}

tabsize == 8

\* readline(): the lines of a text, each with its line break
RECURSIVE readlines(_)
readlines(text) ==
    LET k == find(text, <<LF>>, 1)
    IN IF text = <<>> THEN <<>>
       ELSE IF k = 0 THEN <<text>>
       ELSE <<Take(text, k)>> \o readlines(Drop(text, k))

\* number of characters of [ \t]* at offset pos
RECURSIVE blanks(_, _)
blanks(line, pos) ==
    IF pos < Len(line) /\ line[pos + 1] \in {SP, TAB} THEN 1 + blanks(line, pos + 1) ELSE 0

\* the column of the leading whitespace line[:n]
RECURSIVE measure(_, _)
measure(line, n) ==
    IF n = 0 THEN 0
    ELSE LET column == measure(line, n - 1)
         IN IF line[n] = SP THEN column + 1 ELSE ((column \div tabsize) + 1) * tabsize

\* length of the run of name characters at offset pos
RECURSIVE nameLen(_, _)
nameLen(line, pos) ==
    IF pos < Len(line) /\ line[pos + 1] = "a" THEN 1 + nameLen(line, pos + 1) ELSE 0

NoCont == [contstr |-> <<>>, strstart |-> <<0, 0>>, endpat |-> <<>>]

\* the inner loop "while pos < max" over one line: the tokens it yields and
\* the multi-line string it leaves open, if any
RECURSIVE scan(_, _, _)
scan(line, pos, lnum) ==
    LET max == Len(line)
        start == pos + blanks(line, pos)
        c == line[start + 1]
        isTriple == c \in {DQ, SQ} /\ slice(line, start + 1, start + 3) = <<c, c, c>>
        endTriple == find(line, <<c, c, c>>, start + 4)
        endSingle == find(line, <<c>>, start + 2)
        dots == IF slice(line, start + 1, start + 3) = <<".", ".", ".">> THEN 3 ELSE 1
        n == nameLen(line, start)
        rest(p) == scan(line, p, lnum)
        yield(t, p) == [rest(p) EXCEPT !.toks = <<t>> \o @]
    IN IF pos >= max THEN [toks |-> <<>>, cont |-> NoCont]
       ELSE IF start = max THEN rest(max)
       ELSE IF isTriple
            THEN IF endTriple # 0
                 THEN yield(Tok("STRING", SubSeq(line, start + 1, endTriple + 2),
                                lnum, start, lnum, endTriple + 2), endTriple + 2)
                 ELSE [toks |-> <<>>,
                       cont |-> [contstr |-> Drop(line, start), strstart |-> <<lnum, start>>,
                                 endpat |-> <<c, c, c>>]]
       ELSE IF c = LF
            THEN yield(Tok("NEWLINE", <<LF>>, lnum, start, lnum, start + 1), start + 1)
       ELSE IF c = "."
            THEN yield(Tok("OP", SubSeq(line, start + 1, start + dots),
                           lnum, start, lnum, start + dots), start + dots)
       ELSE IF c \in {DQ, SQ}
            THEN IF endSingle # 0
                 THEN yield(Tok("STRING", SubSeq(line, start + 1, endSingle),
                                lnum, start, lnum, endSingle), endSingle)
                 ELSE yield(Tok("ERRORTOKEN", <<line[pos + 1]>>, lnum, pos, lnum, pos + 1),
                            pos + 1)
       ELSE yield(Tok("NAME", SubSeq(line, start + 1, start + n), lnum, start, lnum, start + n),
                  start + n)

InSeq(x, s) == \E j \in 1..Len(s) : s[j] = x

\* the "while column < indents[-1]" loop: the DEDENT tokens, the indentation
\* stack it leaves, and whether it raised
RECURSIVE dedents(_, _, _, _)
dedents(column, indents, lnum, pos) ==
    IF column < indents[Len(indents)]
    THEN IF ~InSeq(column, indents)
         THEN [toks |-> <<Raise("IndentationError")>>, indents |-> indents, raised |-> TRUE]
         ELSE LET r == dedents(column, Take(indents, Len(indents) - 1), lnum, pos)
              IN [r EXCEPT !.toks = <<Tok("DEDENT", <<>>, lnum, pos, lnum, pos)>> \o @]
    ELSE [toks |-> <<>>, indents |-> indents, raised |-> FALSE]

\* the tokens after the loop over lines: implicit NEWLINE, DEDENTs, ENDMARKER
atEOF(last_line, lnum, indents) ==
    (IF last_line # <<>> /\ last_line[Len(last_line)] # LF
     THEN <<Tok("NEWLINE", <<>>, lnum - 1, Len(last_line), lnum - 1, Len(last_line) + 1)>>
     ELSE <<>>)
    \o [j \in 1..(Len(indents) - 1) |-> Tok("DEDENT", <<>>, lnum, 0, lnum, 0)]
    \o <<Tok("ENDMARKER", <<>>, lnum, 0, lnum, 0)>>

\* the loop over lines.  lines: the lines not yet read; lnum: lines read so
\* far; last: the line read before
RECURSIVE tokenizeLines(_, _, _, _, _)
tokenizeLines(lines, lnum0, last, indents, cont) ==
    LET line == IF lines = <<>> THEN <<>> ELSE Head(lines)
        more == IF lines = <<>> THEN <<>> ELSE Tail(lines)
        lnum == lnum0 + 1
        max == Len(line)
        end == find(line, cont.endpat, 1) + 2
        pos == blanks(line, 0)
        column == measure(line, pos)
        indented == column > indents[Len(indents)]
        d == dedents(column, IF indented THEN Append(indents, column) ELSE indents, lnum, pos)
        body(p, ind) ==
            LET r == scan(line, p, lnum)
            IN r.toks \o tokenizeLines(more, lnum, line, ind, r.cont)
    IN IF cont.contstr # <<>>
       THEN IF line = <<>> THEN <<Raise("TokenError")>>
            ELSE IF end # 2
                 THEN <<Tok("STRING", cont.contstr \o Take(line, end),
                            cont.strstart[1], cont.strstart[2], lnum, end)>>
                      \o body(end, indents)
                 ELSE tokenizeLines(more, lnum, line, indents,
                                    [cont EXCEPT !.contstr = @ \o line])
       ELSE IF line = <<>> \/ pos = max THEN atEOF(last, lnum, indents)
       ELSE IF line[pos + 1] = LF
            THEN <<Tok("NL", Drop(line, pos), lnum, pos, lnum, Len(line))>>
                 \o tokenizeLines(more, lnum, line, indents, NoCont)
       ELSE (IF indented THEN <<Tok("INDENT", Take(line, pos), lnum, 0, lnum, pos)>> ELSE <<>>)
            \o d.toks
            \o (IF d.raised THEN <<>> ELSE body(pos, d.indents))

generate_tokens(text) == tokenizeLines(readlines(text), 0, <<>>, <<0>>, NoCont)

\* ------------------------------------------------------------- format_code
\* the locals of format_code before the loop, lines 13-17
format_locals ==
    [formatted |-> <<>>, previous_token_string |-> <<>>, previous_token_type |-> "None",
     last_row |-> 0, last_column |-> -1]

spaces(n) == [j \in 1..n |-> SP]

\* the condition of lines 29-31
is_docstring(loc, token) ==
    /\ token.type = "STRING"
    /\ starts_with_triple(token.string)
    /\ loc.previous_token_type = "INDENT"

\* one iteration of the loop of format_code, lines 19-40
format_token(loc, token) ==
    LET start_row == token.start[1]
        start_column == token.start[2]
        last_column == IF start_row > loc.last_row THEN 0 ELSE loc.last_column
        gap == IF start_column > last_column THEN spaces(start_column - last_column) ELSE <<>>
        text == IF is_docstring(loc, token)
                THEN format_docstring(loc.previous_token_string, token.string)
                ELSE token.string
    IN [formatted |-> loc.formatted \o gap \o text,
        previous_token_string |-> token.string,
        previous_token_type |-> token.type,
        last_row |-> token.end[1],
        last_column |-> token.end[2]]

\* an iteration raises: the tokenizer does, or strip_docstring does
token_raises(loc, token) ==
    \/ token.type \in Exceptions
    \/ is_docstring(loc, token) /\ strip_docstring_raises(token.string)

RECURSIVE format_loop(_, _)
format_loop(loc, tokens_) ==
    IF tokens_ = <<>> THEN [raised |-> FALSE, value |-> loc.formatted]
    ELSE IF token_raises(loc, Head(tokens_)) THEN [raised |-> TRUE, value |-> <<>>]
    ELSE format_loop(format_token(loc, Head(tokens_)), Tail(tokens_))

\* format_code(source): the text returned, or raised
format_code(source_) == format_loop(format_locals, generate_tokens(source_))

\* ------------------------------------------------------------------- state
VARIABLES
    files, in_place, backup,       \* args of main
    fs,                            \* the file system: path -> [exists, data]
    handles,                       \* the open file objects: [path, mode]
    stdout,                        \* what main wrote to sys.stdout
    pc, i, error,                  \* position of main / format_code, loop index, exception
    source, formatted_source,      \* locals of main (source: argument of format_code)
    tokens, loc,                   \* format_code: the generator, the locals
    log,                           \* history of the file operations of main
    indentation, docstring,        \* format_docstring: arguments
    contents, summary, description, \* format_docstring: locals
    result, dpc                    \* format_docstring: returned value, position

mainVars == <<files, in_place, backup, fs, handles, stdout, i, log>>
codeVars == <<source, formatted_source, tokens, loc>>
docVars == <<indentation, docstring, contents, summary, description, result, dpc>>
vars == <<mainVars, codeVars, docVars, pc, error>>

\* ------------------------------------------------------------------ inputs
RECURSIVE Flat(_)
Flat(ss) == IF ss = <<>> THEN <<>> ELSE Head(ss) \o Flat(Tail(ss))

Seqs(S, n) == UNION {[1..k -> S] : k \in 0..n}

\* docstring tokens handed to format_docstring: delimiters around a body
BodyChars == {"a", ".", SP, LF}
Delimiters == {<<DQ3, DQ3>>, <<SQ3, SQ3>>, <<SQ3, DQ3>>}
Indentations == {<<SP>>, <<TAB>>}

\* source texts handed to format_code: up to MaxPieces pieces
Pieces ==
    {<<"a">>, <<SP>>, <<TAB>>, <<LF>>, DQ3,
     DQ3 \o <<"a", ".", SP, "a">> \o DQ3,
     SQ3 \o <<"a", ".", SP, "a">> \o SQ3,
     DQ3 \o <<SP>> \o DQ3,
     SQ3 \o <<SP>> \o SQ3}

\* the files main is run on
Names == {"a", "a.backup"}
backup_path(filename) == filename \o ".backup"
Paths == Names \cup {backup_path(f) : f \in Names}
NoFile == [exists |-> FALSE, data |-> <<>>]
File(data) == [exists |-> TRUE, data |-> data]
FileTexts ==
    {<<SP>> \o DQ3 \o <<"a", ".", SP, "a">> \o DQ3 \o <<LF>>,
     <<"a", TAB, "a", LF>>,
     <<SP>> \o DQ3 \o <<"a">>,
     <<SP, SP, "a", LF, SP, "a", LF>>}

idleCode ==
    /\ source = <<>> /\ formatted_source = <<>> /\ tokens = <<>> /\ loc = format_locals

idleDoc ==
    /\ indentation = <<>> /\ docstring = <<>> /\ contents = <<>> /\ summary = <<>>
    /\ description = <<>> /\ result = <<>> /\ dpc = "idle"

idleMain ==
    /\ files = <<>> /\ in_place = FALSE /\ backup = FALSE
    /\ fs = [p \in Paths |-> NoFile] /\ handles = {} /\ stdout = <<>>
    /\ i = 0 /\ log = <<>>

\* ------------------------------------------------------------ format_code
\* line 12 and the creation of the generator of line 18
CallFormatCode(text) ==
    /\ source' = text
    /\ tokens' = generate_tokens(text)
    /\ loc' = format_locals
    /\ formatted_source' = formatted_source

\* one iteration of the loop, lines 18-40
FormatToken ==
    /\ pc = "format_code"
    /\ tokens # <<>>
    /\ ~token_raises(loc, Head(tokens))
    /\ loc' = format_token(loc, Head(tokens))
    /\ tokens' = Tail(tokens)
    /\ UNCHANGED <<mainVars, docVars, source, formatted_source, pc, error>>

\* variant: the exception is swallowed and the text built so far returned
FormatRaise_partial ==
    /\ pc = "format_code"
    /\ tokens # <<>>
    /\ token_raises(loc, Head(tokens))
    /\ error' = (IF Head(tokens).type \in Exceptions THEN Head(tokens).type
                 ELSE "AssertionError")
    /\ formatted_source' = loc.formatted
    /\ pc' = "returned"
    /\ tokens' = <<>>
    /\ UNCHANGED <<mainVars, docVars, source, loc>>

\* the generator (or strip_docstring) raises: format_code returns nothing
FormatRaise ==
    /\ pc = "format_code"
    /\ tokens # <<>>
    /\ token_raises(loc, Head(tokens))
    /\ error' = (IF Head(tokens).type \in Exceptions THEN Head(tokens).type
                 ELSE "AssertionError")
    /\ pc' = "raised"
    /\ tokens' = <<>>
    /\ UNCHANGED <<mainVars, docVars, source, formatted_source, loc>>

\* line 42, and the assignment of line 133
FormatReturn ==
    /\ pc = "format_code"
    /\ tokens = <<>>
    /\ formatted_source' = loc.formatted
    /\ pc' = "returned"
    /\ UNCHANGED <<mainVars, docVars, source, tokens, loc, error>>

NextCode == FormatToken \/ FormatRaise \/ FormatReturn

InitCode ==
    /\ idleMain /\ idleDoc
    /\ source \in {Flat(ps) : ps \in Seqs(Pieces, MaxPieces)}
    /\ tokens = generate_tokens(source)
    /\ loc = format_locals
    /\ formatted_source = <<>>
    /\ pc = "format_code"
    /\ error = "None"

SpecCode == InitCode /\ [][NextCode]_vars

\* ------------------------------------------------------- format_docstring
\* line 53
DocStrip ==
    /\ dpc = "call"
    /\ ~strip_docstring_raises(docstring)
    /\ contents' = strip_docstring(docstring)
    /\ dpc' = "stripped"
    /\ UNCHANGED <<mainVars, codeVars, pc, error, indentation, docstring, summary,
                   description, result>>

\* line 101 (or the index of line 103) fails
DocStripRaise ==
    /\ dpc = "call"
    /\ strip_docstring_raises(docstring)
    /\ dpc' = "raised"
    /\ error' = "AssertionError"
    /\ UNCHANGED <<mainVars, codeVars, pc, indentation, docstring, contents, summary,
                   description, result>>

\* lines 55-56
DocEmpty ==
    /\ dpc = "stripped"
    /\ contents = <<>>
    /\ result' = <<>>
    /\ dpc' = "returned"
    /\ UNCHANGED <<mainVars, codeVars, pc, error, indentation, docstring, contents,
                   summary, description>>

\* line 58
DocSplit ==
    /\ dpc = "stripped"
    /\ contents # <<>>
    /\ summary' = split_summary_and_description(contents)[1]
    /\ description' = split_summary_and_description(contents)[2]
    /\ dpc' = "split"
    /\ UNCHANGED <<mainVars, codeVars, pc, error, indentation, docstring, contents, result>>

\* lines 60-70
DocFormat ==
    /\ dpc = "split"
    /\ description # <<>>
    /\ result' = template(normalize_summary(summary), reindent(description, indentation),
                          indentation)
    /\ dpc' = "returned"
    /\ UNCHANGED <<mainVars, codeVars, pc, error, indentation, docstring, contents,
                   summary, description>>

\* lines 71-72
DocPlain ==
    /\ dpc = "split"
    /\ description = <<>>
    /\ result' = DQ3 \o contents \o DQ3
    /\ dpc' = "returned"
    /\ UNCHANGED <<mainVars, codeVars, pc, error, indentation, docstring, contents,
                   summary, description>>

NextDoc == DocStrip \/ DocStripRaise \/ DocEmpty \/ DocSplit \/ DocFormat \/ DocPlain

InitDoc ==
    /\ idleMain /\ idleCode
    /\ pc = "idle" /\ error = "None"
    /\ indentation \in Indentations
    /\ docstring \in {d[1] \o b \o d[2] : d \in Delimiters, b \in Seqs(BodyChars, MaxBody)}
    /\ contents = <<>> /\ summary = <<>> /\ description = <<>> /\ result = <<>>
    /\ dpc = "call"

SpecDoc == InitDoc /\ [][NextDoc]_vars

\* -------------------------------------------------------------------- main
filename == files[i]

Logged(op, path, data) == log' = Append(log, [op |-> op, idx |-> i, path |-> path, data |-> data])

\* what a failed write leaves in the file: some proper prefix of the data
Partial(data) == {Take(data, k) : k \in 0..(IF data = <<>> THEN 0 ELSE Len(data) - 1)}

\* difflib.unified_diff of line 144, joined: nothing for equal texts
unified_diff(name, a, b) ==
    IF a = b THEN <<>>
    ELSE <<[before |-> "before/" \o name, after |-> "after/" \o name,
            a |-> splitNL(a), b |-> splitNL(b)]>>

\* line 130: the next file name
NextFile ==
    /\ pc = "loop"
    /\ i < Len(files)
    /\ i' = i + 1
    /\ pc' = "open"
    /\ UNCHANGED <<files, in_place, backup, fs, handles, stdout, log, codeVars, docVars, error>>

\* line 130: the list is exhausted, main returns
Return ==
    /\ pc = "loop"
    /\ i = Len(files)
    /\ pc' = "done"
    /\ UNCHANGED <<mainVars, codeVars, docVars, error>>

\* lines 131-133: open, read, call format_code
OpenInput ==
    /\ pc = "open"
    /\ fs[filename].exists
    /\ handles' = handles \cup {[path |-> filename, mode |-> "r"]}
    /\ CallFormatCode(fs[filename].data)
    /\ Logged("read", filename, fs[filename].data)
    /\ pc' = "format_code"
    /\ UNCHANGED <<files, in_place, backup, fs, stdout, i, docVars, error>>

\* variant: a file that cannot be read is skipped
OpenInputFail_skip ==
    /\ pc = "open"
    /\ error' = "IOError:read"
    /\ pc' = "loop"
    /\ UNCHANGED <<mainVars, codeVars, docVars>>

\* line 131: the file is missing or unreadable
OpenInputFail ==
    /\ pc = "open"
    /\ error' = "IOError:read"
    /\ pc' = "failed"
    /\ UNCHANGED <<mainVars, codeVars, docVars>>

\* variant: the file is overwritten before the backup is made
CloseInput_overwrite_first ==
    /\ pc = "returned"
    /\ handles' = handles \ {[path |-> filename, mode |-> "r"]}
    /\ pc' = (IF in_place THEN "output" ELSE "diff")
    /\ UNCHANGED <<files, in_place, backup, fs, stdout, i, log, codeVars, docVars, error>>

\* the end of the with block of line 131, after format_code returned
CloseInput ==
    /\ pc = "returned"
    /\ handles' = handles \ {[path |-> filename, mode |-> "r"]}
    /\ pc' = (IF in_place THEN IF backup THEN "backup" ELSE "output" ELSE "diff")
    /\ UNCHANGED <<files, in_place, backup, fs, stdout, i, log, codeVars, docVars, error>>

\* format_code raised: the with block closes the file, main is left
Propagate ==
    /\ pc = "raised"
    /\ handles' = handles \ {[path |-> filename, mode |-> "r"]}
    /\ pc' = "failed"
    /\ UNCHANGED <<files, in_place, backup, fs, stdout, i, log, codeVars, docVars, error>>

\* line 137: open(filename + '.backup', 'w') creates or truncates the backup
OpenBackup ==
    /\ pc = "backup"
    /\ fs' = [fs EXCEPT ![backup_path(filename)] = File(<<>>)]
    /\ handles' = handles \cup {[path |-> backup_path(filename), mode |-> "w"]}
    /\ Logged("open", backup_path(filename), <<>>)
    /\ pc' = "backup_write"
    /\ UNCHANGED <<files, in_place, backup, stdout, i, codeVars, docVars, error>>

\* line 137: the backup cannot be opened
OpenBackupFail ==
    /\ pc = "backup"
    /\ error' = "IOError:backup"
    /\ pc' = "failed"
    /\ UNCHANGED <<mainVars, codeVars, docVars>>

\* line 138 and the end of the with block of line 137: source is in the backup
WriteBackup ==
    /\ pc = "backup_write"
    /\ fs' = [fs EXCEPT ![backup_path(filename)] = File(source)]
    /\ handles' = handles \ {[path |-> backup_path(filename), mode |-> "w"]}
    /\ Logged("write", backup_path(filename), source)
    /\ pc' = "output"
    /\ UNCHANGED <<files, in_place, backup, stdout, i, codeVars, docVars, error>>

\* line 138 fails: the with block closes the backup on some prefix
WriteBackupFail ==
    /\ pc = "backup_write"
    /\ \E part \in Partial(source) :
        /\ fs' = [fs EXCEPT ![backup_path(filename)] = File(part)]
        /\ Logged("partial", backup_path(filename), part)
    /\ handles' = handles \ {[path |-> backup_path(filename), mode |-> "w"]}
    /\ error' = "IOError:backup"
    /\ pc' = "failed"
    /\ UNCHANGED <<files, in_place, backup, stdout, i, codeVars, docVars>>

\* line 140: open(filename, 'w') truncates the file
OpenOutput ==
    /\ pc = "output"
    /\ fs' = [fs EXCEPT ![filename] = File(<<>>)]
    /\ handles' = handles \cup {[path |-> filename, mode |-> "w"]}
    /\ Logged("open", filename, <<>>)
    /\ pc' = "output_write"
    /\ UNCHANGED <<files, in_place, backup, stdout, i, codeVars, docVars, error>>

\* line 140: the file cannot be opened for writing
OpenOutputFail ==
    /\ pc = "output"
    /\ error' = "IOError:output"
    /\ pc' = "failed"
    /\ UNCHANGED <<mainVars, codeVars, docVars>>

\* line 141 and the end of the with block of line 140
WriteOutput ==
    /\ pc = "output_write"
    /\ fs' = [fs EXCEPT ![filename] = File(formatted_source)]
    /\ handles' = handles \ {[path |-> filename, mode |-> "w"]}
    /\ Logged("write", filename, formatted_source)
    /\ pc' = "loop"
    /\ UNCHANGED <<files, in_place, backup, stdout, i, codeVars, docVars, error>>

\* line 141 fails: the with block closes the file on some prefix
WriteOutputFail ==
    /\ pc = "output_write"
    /\ \E part \in Partial(formatted_source) :
        /\ fs' = [fs EXCEPT ![filename] = File(part)]
        /\ Logged("partial", filename, part)
    /\ handles' = handles \ {[path |-> filename, mode |-> "w"]}
    /\ error' = "IOError:output"
    /\ pc' = "failed"
    /\ UNCHANGED <<files, in_place, backup, stdout, i, codeVars, docVars>>

\* lines 143-148
PrintDiff ==
    /\ pc = "diff"
    /\ stdout' = stdout \o unified_diff(filename, source, formatted_source)
    /\ pc' = "loop"
    /\ UNCHANGED <<files, in_place, backup, fs, handles, i, log, codeVars, docVars, error>>

Next ==
    \/ NextFile \/ Return \/ OpenInput \/ OpenInputFail
    \/ FormatToken \/ FormatRaise \/ FormatReturn
    \/ CloseInput \/ Propagate
    \/ OpenBackup \/ OpenBackupFail \/ WriteBackup \/ WriteBackupFail
    \/ OpenOutput \/ OpenOutputFail \/ WriteOutput \/ WriteOutputFail
    \/ PrintDiff

Init ==
    /\ idleDoc /\ idleCode
    /\ files \in Seqs(Names, MaxFiles) \ {<<>>}
    /\ in_place \in BOOLEAN
    /\ backup \in BOOLEAN
    /\ fs \in [Paths -> {NoFile} \cup {File(t) : t \in FileTexts}]
    /\ handles = {}
    /\ stdout = <<>>
    /\ i = 0
    /\ log = <<>>
    /\ pc = "loop"
    /\ error = "None"

Spec == Init /\ [][Next]_vars

\* ------------------------------------------------- format_docstring: claims
\* the second line of a text exists and is blank
BlankSecondLine(c) ==
    LET ls == splitNL(c)
    IN Len(ls) > 1 /\ \A k \in 1..Len(ls[2]) : IsSpace(ls[2][k])

\* the text between the opening triple quote and the first line break
SummaryLineOf(r) == Take(Drop(r, 3), find(Drop(r, 3), <<LF>>, 1) - 1)

RECURSIVE TrailingPeriods(_)
TrailingPeriods(t) ==
    IF t # <<>> /\ t[Len(t)] = "." THEN 1 + TrailingPeriods(Take(t, Len(t) - 1)) ELSE 0

\* C6 as stated: for a docstring whose stripped contents have a blank second
\* line, the summary line of the result ends with exactly one period.
C6_ExactlyOnePeriod ==
    (dpc = "returned" /\ BlankSecondLine(contents))
        => TrailingPeriods(SummaryLineOf(result)) = 1

\* C6 amended: for a docstring whose stripped contents have a blank second
\* line, the result opens with the triple quote and the trimmed first line
\* of the contents, to which one period is appended only when it does not
\* end with one already; this summary line ends with a period and is
\* followed by a blank line.
C6_SummaryLine ==
    (dpc = "returned" /\ BlankSecondLine(contents))
        => LET first == strip(splitNL(contents)[1])
               line == SummaryLineOf(result)
           IN /\ startswith(result, DQ3)
              /\ line = (IF first # <<>> /\ first[Len(first)] = "." THEN first
                         ELSE first \o <<".">>)
              /\ TrailingPeriods(line) >= 1
              /\ TrailingPeriods(line) = (IF TrailingPeriods(first) = 0 THEN 1
                                          ELSE TrailingPeriods(first))
              /\ \A k \in 1..Len(line) : line[k] # LF
              /\ SubSeq(result, Len(line) + 4, Len(line) + 5) = <<LF, LF>>

\* a docstring with a blank second line whose first line had no period
C6_Witness ==
    /\ dpc = "returned"
    /\ BlankSecondLine(contents)
    /\ TrailingPeriods(splitNL(contents)[1]) = 0
    /\ TrailingPeriods(SummaryLineOf(result)) = 1

HasLeadingSpace(line) == line # <<>> /\ IsSpace(line[1])

\* C8: with a non-empty description the result is, line by line: the triple
\* quote and the normalized summary; a blank line; the description lines,
\* those without leading whitespace prefixed with the indentation, the others
\* as they are, all without trailing whitespace; a blank line; the indentation
\* and the closing triple quote.
C8_Layout ==
    (dpc = "returned" /\ description # <<>>)
        => LET out == splitNL(result)
               dl == splitNL(description)
               k == Len(dl)
           IN /\ Len(out) = k + 4
              /\ out[1] = DQ3 \o normalize_summary(summary)
              /\ out[2] = <<>>
              /\ \A j \in 1..k :
                    out[j + 2] = rstrip(IF HasLeadingSpace(dl[j]) THEN dl[j]
                                        ELSE indentation \o dl[j])
              /\ out[k + 3] = <<>>
              /\ out[k + 4] = indentation \o DQ3
              /\ \A j \in 1..Len(out) : out[j] = <<>> \/ ~IsSpace(out[j][Len(out[j])])

\* a description with a line that is prefixed and a line that keeps its own
\* indentation
C8_Witness ==
    /\ dpc = "returned"
    /\ description # <<>>
    /\ \E j, k \in 1..Len(splitNL(description)) :
          LET dl == splitNL(description)
              out == splitNL(result)
          IN /\ dl[j] # <<>> /\ ~HasLeadingSpace(dl[j])
             /\ out[j + 2] = indentation \o dl[j]
             /\ HasLeadingSpace(dl[k]) /\ rstrip(dl[k]) # <<>>
             /\ out[k + 2] = dl[k]

\* a period followed by a whitespace character stands at index k
IsSplitPoint(c, k) == k \in 1..(Len(c) - 1) /\ c[k] = "." /\ IsSpace(c[k + 1])

\* C9: with a blank second line the summary is the first line and the
\* description everything after the blank line; otherwise the split is at the
\* first period followed by a whitespace character (summary: the trimmed text
\* before it and a period, description: the trimmed text after it); without
\* one the whole contents are the summary and the description is empty.
C9_Split ==
    dpc = "split"
        => LET ls == splitNL(contents)
           IN IF BlankSecondLine(contents)
              THEN /\ summary = ls[1]
                   /\ description = (IF Len(ls) = 2 THEN <<>>
                                     ELSE Drop(contents, Len(ls[1]) + Len(ls[2]) + 2))
              ELSE IF \E k \in 1..Len(contents) : IsSplitPoint(contents, k)
                   THEN \E k \in 1..Len(contents) :
                           /\ IsSplitPoint(contents, k)
                           /\ \A j \in 1..(k - 1) : ~IsSplitPoint(contents, j)
                           /\ summary = strip(Take(contents, k - 1)) \o <<".">>
                           /\ description = strip(Drop(contents, k + 1))
                   ELSE summary = contents /\ description = <<>>

\* contents without a blank second line and with two candidate split points
C9_Witness ==
    /\ dpc = "split"
    /\ ~BlankSecondLine(contents)
    /\ \E j, k \in 1..Len(contents) :
          j < k /\ IsSplitPoint(contents, j) /\ IsSplitPoint(contents, k)
    /\ description # <<>>

\* ------------------------------------------------------ format_code: claims
\* a string literal whose trimmed text begins with three double quotes or
\* three single quotes
TripleQuoted(token) ==
    /\ token.type = "STRING"
    /\ startswith(strip(token.string), DQ3) \/ startswith(strip(token.string), SQ3)

\* a token stream holds a triple-quoted string right after an INDENT token
HasCandidate(toks) ==
    \E j \in 2..Len(toks) : TripleQuoted(toks[j]) /\ toks[j - 1].type = "INDENT"

\* C1 as stated: a source that tokenizes and holds no triple-quoted string
\* right after an indentation token is returned unchanged by format_code.
C1_Identity ==
    (pc = "returned" /\ ~HasCandidate(generate_tokens(source)))
        => formatted_source = source

\* the token of the current iteration is a docstring candidate as the
\* specification defines it
Candidate == TripleQuoted(Head(tokens)) /\ loc.previous_token_type = "INDENT"

\* the iteration appended some spaces and then exactly text
Emits(text) ==
    \E n \in 0..Len(loc'.formatted) : loc'.formatted = loc.formatted \o spaces(n) \o text

\* C2 as stated: an iteration of format_code emits the result of
\* format_docstring if and only if the token is a triple-quoted string literal
\* right after an indentation token, and the raw text of the token otherwise.
C2_Replaced ==
    [][(pc = "format_code" /\ tokens # <<>> /\ tokens' = Tail(tokens))
         => Emits(IF Candidate
                  THEN format_docstring(loc.previous_token_string, Head(tokens).string)
                  ELSE Head(tokens).string)]_vars

\* C5 as stated: format_code applied to its own result returns that result.
C5_Idempotent ==
    pc = "returned"
        => /\ ~format_code(formatted_source).raised
           /\ format_code(formatted_source).value = formatted_source

\* the text between the delimiters of a triple-quoted token
Between(token) ==
    LET t == strip(token.string) IN SubSeq(t, 4, Len(t) - 3)

\* C7 as stated: for a docstring token with nothing but whitespace between
\* its delimiters format_docstring returns the empty text, and the iteration
\* of format_code emits nothing for the token.
C7_EmptyDocstring ==
    [][(/\ pc = "format_code" /\ tokens # <<>> /\ tokens' = Tail(tokens)
        /\ Candidate
        /\ strip(Between(Head(tokens))) = <<>>)
         => /\ format_docstring(loc.previous_token_string, Head(tokens).string) = <<>>
            /\ Emits(<<>>)]_vars

\* ------------------------------------------------------------- main: claims
WriteHandle(path) == [path |-> path, mode |-> "w"]

\* C3: in in-place mode with backup, while the file is open for writing or
\* about to be, the backup holds the whole source and is closed; when writing
\* the backup fails the file still holds the source and was never opened for
\* writing; when writing the file fails the backup holds the whole source.
C3_BackupFirst ==
    (i >= 1 /\ in_place /\ backup)
        => /\ (pc \in {"output", "output_write"} \/ WriteHandle(filename) \in handles)
                => /\ fs[backup_path(filename)] = File(source)
                   /\ WriteHandle(backup_path(filename)) \notin handles
           /\ (pc = "failed" /\ error = "IOError:backup")
                => /\ fs[filename] = File(source)
                   /\ \A k \in 1..Len(log) :
                         (log[k].idx = i /\ log[k].path = filename) => log[k].op = "read"
           /\ (pc = "failed" /\ error = "IOError:output")
                => fs[backup_path(filename)] = File(source)

\* writing the reformatted file failed and damaged it; the backup is whole
C3_Witness ==
    /\ i >= 1 /\ in_place /\ backup
    /\ pc = "failed" /\ error = "IOError:output"
    /\ formatted_source # source
    /\ fs[filename] # File(source)
    /\ fs[backup_path(filename)] = File(source)

\* C4: when the tokenizer fails, format_code hands no text to main and main
\* writes nothing for that file: the file keeps its content, the backup is
\* neither created nor changed, nothing is printed.
C4_NoWriteOnTokenError ==
    /\ [](error \in Exceptions
            => /\ pc \in {"raised", "failed"}
               /\ fs[filename] = File(source)
               /\ \A h \in handles : h.mode = "r"
               /\ \A k \in 1..Len(log) : log[k].idx = i => log[k].op = "read")
    /\ [][error' \in Exceptions
            => /\ fs' = fs
               /\ formatted_source' = formatted_source
               /\ stdout' = stdout
               /\ log' = log]_vars

\* the tokenizer failed after part of the text had been built, in in-place
\* mode with backup
C4_Witness ==
    /\ pc = "failed" /\ error = "TokenError"
    /\ in_place /\ backup
    /\ loc.formatted # <<>>
    /\ ~fs[backup_path(filename)].exists

\* file j was read, and in in-place mode backed up (if asked) and overwritten
\* with the text format_code returns for what was read
Completed(j) ==
    \E r \in 1..Len(log) :
        /\ log[r].op = "read" /\ log[r].idx = j /\ log[r].path = files[j]
        /\ in_place =>
              \E w \in (r + 1)..Len(log) :
                  /\ log[w] = [op |-> "write", idx |-> j, path |-> files[j],
                               data |-> format_code(log[r].data).value]
                  /\ backup =>
                        \E b \in (r + 1)..(w - 1) :
                            log[b] = [op |-> "write", idx |-> j,
                                      path |-> backup_path(files[j]),
                                      data |-> log[r].data]

\* C10: the files are handled in argument order, one at a time; every file
\* before the current one was completed and all its handles are closed; after
\* the first error main does nothing more, so no later file is touched.
C10_Sequential ==
    /\ \A k \in 1..Len(log) : log[k].idx <= i /\ log[k].idx >= 1
    /\ \A k \in 2..Len(log) : log[k - 1].idx <= log[k].idx
    /\ pc \in {"loop", "open", "done"} => handles = {}
    /\ \A j \in 1..(i - 1) : Completed(j)
    /\ (pc \in {"loop", "done"} /\ i >= 1) => Completed(i)
    /\ pc = "failed" => ~ENABLED Next

\* the second of three files failed: the first was overwritten with a
\* different text, the third was never read
C10_Witness ==
    /\ pc = "failed" /\ i = 2 /\ Len(files) = 3
    /\ in_place
    /\ files[1] # files[2]
    /\ \E r, w \in 1..Len(log) :
          /\ log[r].op = "read" /\ log[r].idx = 1
          /\ log[w].op = "write" /\ log[w].idx = 1 /\ log[w].path = files[1]
          /\ log[w].data # log[r].data
    /\ \A k \in 1..Len(log) : log[k].idx # 3

====
